---------------------------- MODULE Spec2Model ----------------------------
(***************************************************************************)
(* Model of the ImagineThat Architecture Assistant (helper.py, app.py).    *)
(*                                                                         *)
(* Text is modelled as a sequence of one-character strings, so the reply   *)
(* parser works on characters exactly as str.strip, str.split, str.index   *)
(* and slicing do.  Indices of the string operators are Python's (0-based, *)
(* end-exclusive); only Slice converts to TLA+'s 1-based SubSeq.           *)
(***************************************************************************)
EXTENDS Integers, Sequences, FiniteSets

VARIABLES
    pc,                      \* position of the running script / call
    raw_reply,               \* helper.py:183  reply text of the chat model
    blocks,                  \* history: the blocks raw_reply was written from
    parsed,                  \* helper.py:186  what parse_ideas_reply gave
    topic,                   \* helper.py:158  parameter
    num_ideas,               \* helper.py:158  parameter
    structured_ideas,        \* helper.py:189  the retained ideas
    image_bytes,             \* helper.py:202  image of the idea in hand
    results,                 \* helper.py:191  bundles built so far
    returned,                \* value handed to the caller (NoValue before)
    calls,                   \* history: backend calls of the current call
    intro_audio,             \* app.py:204
    user_message,            \* app.py:167
    messages,                \* st.session_state.messages
    initial_question,        \* st.session_state.initial_question
    selected_suggestion,     \* st.session_state.selected_suggestion
    prev_question_timestamp, \* st.session_state.prev_question_timestamp
    clock,                   \* datetime.datetime.now(), in seconds
    view,                    \* the widgets on the page: initial or chat view
    run_log                  \* history: per pipeline run of the UI, its times

vars == <<pc, raw_reply, blocks, parsed, topic, num_ideas, structured_ideas,
          image_bytes, results, returned, calls, intro_audio, user_message, messages,
          initial_question, selected_suggestion, prev_question_timestamp,
          clock, view, run_log>>

-----------------------------------------------------------------------------
(* Bounds of the model.                                                    *)

MaxTokens == 6
MaxBlocks == 3
MaxReplyBlocks == 3
MaxReplyTokens == 3
MaxIdeas == 3
MaxTurns == 2
MaxClock == 6

-----------------------------------------------------------------------------
(* Characters and Python's string primitives.                              *)

NL == "\n"
Whitespace == {" ", NL, "\t"}
DotSpace == <<".", " ">>
ColonSpace == <<":", " ">>
BlankLine == <<NL, NL>>

\* s[i:j] for 0 <= i, j
Slice(s, i, j) == SubSeq(s, i + 1, IF j > Len(s) THEN Len(s) ELSE j)

RECURSIVE LStrip(_)
LStrip(s) ==
    IF s # <<>> /\ Head(s) \in Whitespace THEN LStrip(Tail(s)) ELSE s

RECURSIVE RStrip(_)
RStrip(s) ==
    IF s # <<>> /\ s[Len(s)] \in Whitespace
    THEN RStrip(SubSeq(s, 1, Len(s) - 1))
    ELSE s

\* str.strip()
Strip(s) == RStrip(LStrip(s))

\* str.find(sub, start): the lowest index >= start where sub occurs, or -1
RECURSIVE Find(_, _, _)
Find(s, sub, start) ==
    IF start + Len(sub) > Len(s) THEN -1
    ELSE IF Slice(s, start, start + Len(sub)) = sub THEN start
    ELSE Find(s, sub, start + 1)

\* str.index(sub, start): as find, but raises ValueError when sub is absent
Index(s, sub, start) ==
    LET i == Find(s, sub, start)
    IN  IF i < 0 THEN [raised |-> TRUE, value |-> 0]
        ELSE [raised |-> FALSE, value |-> i]

\* str.split(sep) for a non-empty sep: non-overlapping, left to right
RECURSIVE Split(_, _)
Split(s, sep) ==
    LET i == Find(s, sep, 0)
    IN  IF i < 0 THEN <<s>>
        ELSE <<Slice(s, 0, i)>> \o Split(Slice(s, i + Len(sep), Len(s)), sep)

\* sep.join(parts)
RECURSIVE Join(_, _)
Join(parts, sep) ==
    IF parts = <<>> THEN <<>>
    ELSE IF Len(parts) = 1 THEN parts[1]
    ELSE parts[1] \o sep \o Join(Tail(parts), sep)

-----------------------------------------------------------------------------
(* parse_ideas_reply (helper.py:69-109).                                   *)

IdeaRecord(title, description) == [idea |-> title, description |-> description]

Continue == [kind |-> "continue", idea |-> <<>>, description |-> <<>>]
ValueError == [kind |-> "ValueError", idea |-> <<>>, description |-> <<>>]

\* str.rindex(sub, start): the highest index >= start where sub occurs
RECURSIVE RFind(_, _, _)
RFind(s, sub, start) ==
    LET i == Find(s, sub, start)
    IN  IF i < 0 THEN -1
        ELSE LET j == RFind(s, sub, i + 1) IN IF j < 0 THEN i ELSE j

\* TryBlock taking the last ": " of the line for the delimiter
TryBlock_LastColon(line) ==
    LET dot_index == Index(line, DotSpace, 0)
    IN  IF dot_index.raised THEN ValueError
        ELSE
        LET colon == RFind(line, ColonSpace, dot_index.value + 2)
        IN  IF colon < 0 THEN ValueError
            ELSE
            LET title == Strip(Slice(line, dot_index.value + 2, colon))
                description == Strip(Slice(line, colon + 2, Len(line)))
            IN  IF title # <<>> /\ description # <<>>
                THEN [kind |-> "append", idea |-> title,
                      description |-> description]
                ELSE Continue

\* TryBlock searching ": " from the start of the line
TryBlock_ColonFromStart(line) ==
    LET dot_index == Index(line, DotSpace, 0)
    IN  IF dot_index.raised THEN ValueError
        ELSE
        LET colon_index == Index(line, ColonSpace, 0)
        IN  IF colon_index.raised THEN ValueError
            ELSE
            LET title == Strip(Slice(line, dot_index.value + 2, colon_index.value))
                description == Strip(Slice(line, colon_index.value + 2, Len(line)))
            IN  IF title # <<>> /\ description # <<>>
                THEN [kind |-> "append", idea |-> title,
                      description |-> description]
                ELSE Continue

\* TryBlock appending whenever either field is non-empty
TryBlock_EitherField(line) ==
    LET dot_index == Index(line, DotSpace, 0)
    IN  IF dot_index.raised THEN ValueError
        ELSE
        LET colon_index == Index(line, ColonSpace, dot_index.value + 2)
        IN  IF colon_index.raised THEN ValueError
            ELSE
            LET title == Strip(Slice(line, dot_index.value + 2, colon_index.value))
                description == Strip(Slice(line, colon_index.value + 2, Len(line)))
            IN  IF title # <<>> \/ description # <<>>
                THEN [kind |-> "append", idea |-> title,
                      description |-> description]
                ELSE Continue

\* the body of the try (lines 89-103): an appended record, nothing, or a
\* ValueError raised by one of the two index calls
TryBlock(line) ==
    LET dot_index == Index(line, DotSpace, 0)
    IN  IF dot_index.raised THEN ValueError
        ELSE
        LET colon_index == Index(line, ColonSpace, dot_index.value + 2)
        IN  IF colon_index.raised THEN ValueError
            ELSE
            LET title == Strip(Slice(line, dot_index.value + 2, colon_index.value))
                description == Strip(Slice(line, colon_index.value + 2, Len(line)))
            IN  IF title # <<>> /\ description # <<>>
                THEN [kind |-> "append", idea |-> title,
                      description |-> description]
                ELSE Continue

\* a handler that lets the ValueError through
ExceptValueError_Reraise(r) == r

\* except ValueError: continue (lines 104-107)
ExceptValueError(r) == IF r.kind = "ValueError" THEN Continue ELSE r

\* one pass of the for loop (lines 82-107)
ParseItem(item) ==
    LET line == Strip(item)
    IN  IF line = <<>> THEN Continue ELSE ExceptValueError(TryBlock(line))

\* the for loop leaving at the first malformed item (break for continue)
RECURSIVE ParseItems_Break(_, _)
ParseItems_Break(items, ideas) ==
    IF items = <<>> THEN [ideas |-> ideas, raised |-> FALSE]
    ELSE
    LET line == Strip(Head(items))
        r == IF line = <<>> THEN Continue ELSE TryBlock(line)
    IN  CASE r.kind = "append" ->
                ParseItems_Break(Tail(items),
                                 Append(ideas, IdeaRecord(r.idea, r.description)))
          [] r.kind = "continue" -> ParseItems_Break(Tail(items), ideas)
          [] OTHER -> [ideas |-> ideas, raised |-> FALSE]

\* the for loop: ideas accumulates in encounter order; an exception that
\* leaves the loop body ends the call with no value
RECURSIVE ParseItems(_, _)
ParseItems(items, ideas) ==
    IF items = <<>> THEN [ideas |-> ideas, raised |-> FALSE]
    ELSE
    LET r == ParseItem(Head(items))
    IN  CASE r.kind = "append" ->
                ParseItems(Tail(items),
                           Append(ideas, IdeaRecord(r.idea, r.description)))
          [] r.kind = "continue" -> ParseItems(Tail(items), ideas)
          [] OTHER -> [ideas |-> <<>>, raised |-> TRUE]

parse_ideas_reply(reply) == ParseItems(Split(Strip(reply), BlankLine), <<>>)


\* str(n) for n >= 0, as the f-strings format a number
Digit(d) == <<"0", "1", "2", "3", "4", "5", "6", "7", "8", "9">>[d + 1]

RECURSIVE ToString(_)
ToString(n) ==
    IF n < 10 THEN <<Digit(n)>> ELSE ToString(n \div 10) \o <<Digit(n % 10)>>

-----------------------------------------------------------------------------
(* The chat model's reply, as the prompt asks for it (helper.py:26-42):    *)
(* "<number>. <Title>: <Description>" blocks, one blank line between them. *)
(* The reply is untrusted text, so the model also writes blocks that break *)
(* the format and replies made of loose fragments.                         *)

Titles ==
    { <<"a">>,
      <<"a", ":", "b", ".", " ", "c">>,
      <<"a", ":", " ", "b">>,
      <<" ">> }

Descriptions ==
    { <<"b">>,
      <<"c", ":", " ", "d", NL, "e">>,
      <<"b", NL, NL, "c">> }

Candidates ==
    { <<"1", " ", "a", " ", "b">>,
      <<"1", ".", " ", "a", " ", "b">>,
      <<"1", " ", "a", ":", " ", "b">>,
      <<"a", ":", " ", "1", ".", " ", "b">>,
      <<"1", ".", " ", ":", " ", "b">>,
      <<"1", ".", " ", "a", ":", " ">> }

Tokens == { <<"a">>, DotSpace, ColonSpace, BlankLine, <<" ">> }

\* "<number>. <Title>: <Description>"
FormatIdea(n, title, description) ==
    ToString(n) \o DotSpace \o title \o ColonSpace \o description

Block(kind, text, title, description) ==
    [kind |-> kind, text |-> text, idea |-> title, description |-> description]

Texts(bs) == [i \in 1..Len(bs) |-> bs[i].text]

InBlocks == \A i \in 1..Len(blocks) : blocks[i].kind # "token"
InTokens == \A i \in 1..Len(blocks) : blocks[i].kind = "token"

NoValue == [kind |-> "none", value |-> <<>>]
NotParsed == [ideas |-> <<>>, raised |-> FALSE]
\* datetime.datetime.fromtimestamp(0) (app.py:62)
Epoch == 0

\* app.py:42, in seconds
MIN_TIME_BETWEEN_REQUESTS == 2

\* every variable but pc, as the process starts, long after the epoch
InitState ==
    /\ raw_reply = <<>>
    /\ blocks = <<>>
    /\ parsed = NotParsed
    /\ topic = <<>>
    /\ num_ideas = 1
    /\ image_bytes = NoValue
    /\ structured_ideas = <<>>
    /\ results = <<>>
    /\ returned = NoValue
    /\ calls = <<>>
    /\ intro_audio = NoValue
    /\ user_message = <<>>
    /\ messages = <<>>
    /\ initial_question = <<>>
    /\ selected_suggestion = ""
    /\ prev_question_timestamp = Epoch
    /\ clock = Epoch + MIN_TIME_BETWEEN_REQUESTS
    /\ view = "initial"
    /\ run_log = <<>>

pipeline_vars == <<topic, num_ideas, structured_ideas, image_bytes, results,
                   returned, calls>>
ui_vars == <<intro_audio, user_message, messages, initial_question,
             selected_suggestion, prev_question_timestamp, clock, view,
             run_log>>

\* the model writes one more well-formed block
WriteIdea(title, description) ==
    /\ pc = "reply"
    /\ InBlocks
    /\ Len(blocks) < MaxBlocks
    /\ blocks' = Append(blocks,
                        Block("idea",
                              FormatIdea(Len(blocks) + 1, title, description),
                              title, description))
    /\ raw_reply' = Join(Texts(blocks'), BlankLine)
    /\ UNCHANGED <<pc, parsed, pipeline_vars, ui_vars>>

\* the model writes one more block, one that breaks the format
WriteCandidate(text) ==
    /\ pc = "reply"
    /\ InBlocks
    /\ Len(blocks) < MaxBlocks
    /\ blocks' = Append(blocks, Block("candidate", text, <<>>, <<>>))
    /\ raw_reply' = Join(Texts(blocks'), BlankLine)
    /\ UNCHANGED <<pc, parsed, pipeline_vars, ui_vars>>

\* the model writes a loose fragment, with no separator
WriteToken(text) ==
    /\ pc = "reply"
    /\ InTokens
    /\ Len(blocks) < MaxTokens
    /\ blocks' = Append(blocks, Block("token", text, <<>>, <<>>))
    /\ raw_reply' = raw_reply \o text
    /\ UNCHANGED <<pc, parsed, pipeline_vars, ui_vars>>

\* parse_ideas_reply(raw_reply)
ParseReply ==
    /\ pc = "reply"
    /\ parsed' = parse_ideas_reply(raw_reply)
    /\ pc' = "parsed"
    /\ UNCHANGED <<raw_reply, blocks, pipeline_vars, ui_vars>>

InitParser == pc = "reply" /\ InitState

NextParser ==
    \/ \E t \in Titles, d \in Descriptions : WriteIdea(t, d)
    \/ \E c \in Candidates : WriteCandidate(c)
    \/ \E t \in Tokens : WriteToken(t)
    \/ ParseReply

SpecParser == InitParser /\ [][NextParser]_vars

-----------------------------------------------------------------------------
(* generate_ideas_with_media (helper.py:158-220).  Every backend call is a *)
(* blocking call: one step that ends with the call's value or with the     *)
(* exception it raised.  calls lists the backend calls made since the call *)
(* began, each with what it was given and whether it came back.            *)

Value(v) == [kind |-> "value", value |-> v]
Exception == [kind |-> "exception", value |-> <<>>]

BackendCall(api, arg, ok) == [api |-> api, arg |-> arg, ok |-> ok]

\* text_string = f"{idea}: {description}" (line 199)
TextString(item) == item.idea \o ColonSpace \o item.description

\* voice_text (lines 205-208)
VoiceText(item) ==
    <<"Beep Boop. Beep Boop. Here is an idea. Consider ">> \o TextString(item)

\* the bytes a backend gives for an input
Bytes(format, input) == [format |-> format, of |-> input]

\* s[:k], negative k counting from the end
SliceTo(s, k) ==
    LET n == IF k < 0 THEN Len(s) + k ELSE IF k > Len(s) THEN Len(s) ELSE k
    IN  IF n <= 0 THEN <<>> ELSE SubSeq(s, 1, n)

\* the idea the for loop holds: one bundle is appended per finished pass
Item == structured_ideas[Len(results) + 1]

\* line 183, the chat model answering with reply
ChatCompletion(reply) ==
    /\ pc = "chat"
    /\ calls' = Append(calls, BackendCall("chat", topic, TRUE))
    /\ raw_reply' = reply
    /\ pc' = "parse"
    /\ UNCHANGED <<blocks, parsed, topic, num_ideas, structured_ideas,
                   image_bytes, results, returned, ui_vars>>

\* line 183, the chat backend raising
ChatCompletionFails ==
    /\ pc = "chat"
    /\ calls' = Append(calls, BackendCall("chat", topic, FALSE))
    /\ returned' = Exception
    /\ pc' = "done"
    /\ UNCHANGED <<raw_reply, blocks, parsed, topic, num_ideas,
                   structured_ideas, image_bytes, results, ui_vars>>

\* a truncation that keeps every idea
Truncated_KeepAll(ideas, k) == ideas

\* structured_ideas[:num_ideas] (line 189)
Truncated(ideas, k) == SliceTo(ideas, k)

\* lines 186-191: parse, keep the first num_ideas, start the loop
ParseAndTruncate ==
    /\ pc = "parse"
    /\ parsed' = parse_ideas_reply(raw_reply)
    /\ IF parsed'.raised
       THEN /\ returned' = Exception
            /\ pc' = "done"
            /\ UNCHANGED <<structured_ideas, results>>
       ELSE /\ structured_ideas' = Truncated(parsed'.ideas, num_ideas)
            /\ results' = <<>>
            /\ pc' = IF structured_ideas' = <<>> THEN "return" ELSE "image"
            /\ UNCHANGED returned
    /\ UNCHANGED <<raw_reply, blocks, topic, num_ideas, image_bytes, calls,
                   ui_vars>>

\* line 202
GenerateImage ==
    /\ pc = "image"
    /\ calls' = Append(calls, BackendCall("image", TextString(Item), TRUE))
    /\ image_bytes' = Value(Bytes("png", TextString(Item)))
    /\ pc' = "audio"
    /\ UNCHANGED <<raw_reply, blocks, parsed, topic, num_ideas,
                   structured_ideas, results, returned, ui_vars>>

\* an image failure swallowed: the pass goes on with no image
ImageFailure_Swallowed ==
    /\ image_bytes' = NoValue
    /\ pc' = "audio"
    /\ UNCHANGED returned

\* an exception of line 202 leaves the function
ImageFailure ==
    /\ returned' = Exception
    /\ pc' = "done"
    /\ UNCHANGED image_bytes

\* line 202, the image backend raising
GenerateImageFails ==
    /\ pc = "image"
    /\ calls' = Append(calls, BackendCall("image", TextString(Item), FALSE))
    /\ ImageFailure
    /\ UNCHANGED <<raw_reply, blocks, parsed, topic, num_ideas,
                   structured_ideas, results, ui_vars>>

\* the bundle put first in the list
Collected_Prepend(bundle) == <<bundle>> \o results

\* results.append(...) (lines 211-218)
Collected(bundle) == Append(results, bundle)

\* lines 209-218, and the loop going on or ending
GenerateAudio ==
    /\ pc = "audio"
    /\ calls' = Append(calls, BackendCall("audio", VoiceText(Item), TRUE))
    /\ results' = Collected([idea |-> Item.idea,
                             description |-> Item.description,
                             image |-> image_bytes.value,
                             audio |-> Bytes("mp3", VoiceText(Item))])
    /\ image_bytes' = NoValue
    /\ pc' = IF Len(results') < Len(structured_ideas) THEN "image" ELSE "return"
    /\ UNCHANGED <<raw_reply, blocks, parsed, topic, num_ideas,
                   structured_ideas, returned, ui_vars>>

\* line 209, the speech backend raising
GenerateAudioFails ==
    /\ pc = "audio"
    /\ calls' = Append(calls, BackendCall("audio", VoiceText(Item), FALSE))
    /\ returned' = Exception
    /\ pc' = "done"
    /\ UNCHANGED <<raw_reply, blocks, parsed, topic, num_ideas,
                   structured_ideas, image_bytes, results, ui_vars>>

\* line 220
Return ==
    /\ pc = "return"
    /\ returned' = Value(results)
    /\ pc' = "done"
    /\ UNCHANGED <<raw_reply, blocks, parsed, topic, num_ideas,
                   structured_ideas, image_bytes, results, calls, ui_vars>>

\* the locals of a fresh call
Enter(t, k) ==
    /\ topic' = t
    /\ num_ideas' = k
    /\ raw_reply' = <<>>
    /\ parsed' = NotParsed
    /\ structured_ideas' = <<>>
    /\ image_bytes' = NoValue
    /\ results' = <<>>
    /\ returned' = NoValue
    /\ calls' = <<>>
    /\ pc' = "chat"

Topics == { <<"A", "r", "e", "n", "a">> }

\* the replies the chat model is taken to give
ReplyBlocks ==
    { FormatIdea(1, <<"a">>, <<"b">>),
      FormatIdea(2, <<"a", ":", "b", ".", " ", "c">>,
                    <<"c", ":", " ", "d", NL, "e">>),
      <<"1", " ", "a", " ", "b">>,
      <<"1", ".", " ", ":", " ", "b">> }

SeqsUpTo(S, n) == UNION {[1..m -> S] : m \in 0..n}

Replies ==
    {Join(bs, BlankLine) : bs \in SeqsUpTo(ReplyBlocks, MaxReplyBlocks)}
        \cup {Join(ts, <<>>) : ts \in SeqsUpTo(Tokens, MaxReplyTokens)}

\* generate_ideas_with_media(t, k) called
Call(t, k) ==
    /\ pc \in {"idle", "done"}
    /\ Enter(t, k)
    /\ UNCHANGED <<blocks, ui_vars>>

Pipeline(replies) ==
    \/ \E reply \in replies : ChatCompletion(reply)
    \/ ChatCompletionFails
    \/ ParseAndTruncate
    \/ GenerateImage
    \/ GenerateImageFails
    \/ GenerateAudio
    \/ GenerateAudioFails
    \/ Return

Init == pc = "idle" /\ InitState

Next ==
    \/ \E t \in Topics, k \in 0..MaxIdeas : Call(t, k)
    \/ Pipeline(Replies)

Spec == Init /\ [][Next]_vars

-----------------------------------------------------------------------------
(* The Streamlit script (app.py).  Every interaction of the user reruns    *)
(* main() from the top; between reruns the script waits at pc = "ui".      *)
(* A widget's keyed state lives only while the widget is drawn: Streamlit  *)
(* drops the keys of the initial view's widgets after a run that did not   *)
(* draw them.  One tick of the clock is one second.                        *)

SUGGESTIONS ==
    [label \in {"Convention Center pill", "Arena pill", "Urban Park pill"} |->
        CASE label = "Convention Center pill" -> <<"Convention Center">>
          [] label = "Arena pill" -> <<"Arena">>
          [] label = "Urban Park pill" -> <<"Urban Park">>]

\* what the user types
Questions == { <<"$", "5", " ", "hall">> }

\* str.replace("$", "\\$") (line 185)
RECURSIVE EscapeDollar(_)
EscapeDollar(s) ==
    IF s = <<>> THEN <<>>
    ELSE (IF Head(s) = "$" THEN <<"\\", "$">> ELSE <<Head(s)>>)
             \o EscapeDollar(Tail(s))

\* the text of the intro clip (lines 148-151)
IntroText(t) ==
    <<"Beep Boop. Hello. I am a bot made for ImagineThat. ",
      "You are interested in the future of ">> \o t \o <<". Beep Boop.">>

\* history_text (lines 225-228)
HistoryText(ideas) ==
    Join([i \in 1..Len(ideas) |->
             FormatIdea(i, ideas[i].idea, ideas[i].description)],
         BlankLine)

Message(role, content) == [role |-> role, content |-> content]

\* show_initial_view (lines 95-120): the history is emptied, the first
\* question's input and the pills are drawn, and the run stops
ShowInitialView ==
    /\ messages' = <<>>
    /\ view' = "initial"
    /\ pc' = "ui"
    /\ UNCHANGED <<user_message, prev_question_timestamp, clock, run_log,
                   intro_audio>>

\* lines 183-189: there is a message, the run goes on to the rate limit
TakeMessage(text) ==
    /\ user_message' = EscapeDollar(text)
    /\ view' = "chat"
    /\ pc' = "rate_limit"
    /\ UNCHANGED <<messages, prev_question_timestamp, clock, run_log,
                   intro_audio>>

unused_by_ui == <<raw_reply, blocks, parsed, pipeline_vars>>

\* the page is loaded, or reloaded, with nothing asked (lines 142-164)
LoadPage ==
    /\ pc = "ui"
    /\ view = "initial"
    /\ initial_question' = <<>>
    /\ selected_suggestion' = ""
    /\ ShowInitialView
    /\ UNCHANGED unused_by_ui

\* the first question is typed into the initial view (lines 142-189)
AskInitialQuestion(text) ==
    /\ pc = "ui"
    /\ view = "initial"
    /\ Len(run_log) < MaxTurns
    /\ initial_question' = text
    /\ UNCHANGED selected_suggestion
    /\ TakeMessage(text)
    /\ UNCHANGED unused_by_ui

\* a pill of the initial view is clicked (lines 142-189)
ClickSuggestion(label) ==
    /\ pc = "ui"
    /\ view = "initial"
    /\ Len(run_log) < MaxTurns
    /\ selected_suggestion' = label
    /\ UNCHANGED initial_question
    /\ TakeMessage(SUGGESTIONS[label])
    /\ UNCHANGED unused_by_ui

\* a follow-up is typed into the input of line 167; with no history and
\* nothing in the initial view's widgets the run never reaches that input
AskFollowUp(text) ==
    /\ pc = "ui"
    /\ view = "chat"
    /\ Len(run_log) < MaxTurns
    /\ UNCHANGED <<initial_question, selected_suggestion>>
    /\ IF messages = <<>> /\ initial_question = <<>> /\ selected_suggestion = ""
       THEN ShowInitialView
       ELSE TakeMessage(text)
    /\ UNCHANGED unused_by_ui

\* the Restart button: clear_conversation (lines 65-69), then the rerun
Restart ==
    /\ pc = "ui"
    /\ initial_question' = <<>>
    /\ selected_suggestion' = ""
    /\ ShowInitialView
    /\ UNCHANGED unused_by_ui

\* time.sleep(seconds)
Sleep(seconds) == clock' = clock + seconds

\* lines 192-197
RateLimit ==
    /\ pc = "rate_limit"
    /\ LET now == clock
           time_diff == now - prev_question_timestamp
       IN  /\ prev_question_timestamp' = now
           /\ IF time_diff < MIN_TIME_BETWEEN_REQUESTS
              THEN Sleep(time_diff)
              ELSE UNCHANGED clock
    /\ pc' = "intro"
    /\ UNCHANGED <<raw_reply, blocks, parsed, pipeline_vars, intro_audio,
                   user_message, messages, initial_question,
                   selected_suggestion, view, run_log>>

Run(started, intro) ==
    [started |-> started, intro |-> intro, generate |-> FALSE,
     finished |-> started]

\* the run's first backend call is made now; lines 205-209 when
\* generate_intro_audio came back: generate_ideas_with_media(user_message)
GoOn(intro) ==
    /\ run_log' = Append(run_log, [Run(clock, intro) EXCEPT !.generate = TRUE])
    /\ Enter(user_message, 1)
    /\ UNCHANGED <<messages, initial_question, selected_suggestion, view>>

\* the end of a script run: the keys of widgets it did not draw are dropped
EndOfRun(log) ==
    /\ run_log' = [log EXCEPT ![Len(log)].finished = clock]
    /\ initial_question' = <<>>
    /\ selected_suggestion' = ""
    /\ pc' = "ui"

\* an exception of the speech backend leaving generate_intro_audio, and so
\* the script
IntroFailure_Propagates ==
    /\ intro_audio' = Exception
    /\ EndOfRun(Append(run_log, Run(clock, "failed")))
    /\ UNCHANGED <<topic, num_ideas, raw_reply, parsed, structured_ideas,
                   image_bytes, results, returned, calls, messages, view>>

\* except Exception: return None (lines 154-155)
IntroFailure ==
    /\ intro_audio' = NoValue
    /\ GoOn("failed")

\* lines 204-209, the speech backend giving the intro clip
IntroAudio ==
    /\ pc = "intro"
    /\ intro_audio' = Value(Bytes("mp3", IntroText(user_message)))
    /\ GoOn("ok")
    /\ UNCHANGED <<blocks, user_message, prev_question_timestamp, clock>>

\* lines 204-209, the speech backend raising in generate_intro_audio
IntroAudioFails ==
    /\ pc = "intro"
    /\ IntroFailure
    /\ UNCHANGED <<blocks, user_message, prev_question_timestamp, clock>>

\* the locals of main() and of the call it made go with the run
Forget ==
    /\ topic' = <<>>
    /\ num_ideas' = 1
    /\ raw_reply' = <<>>
    /\ parsed' = NotParsed
    /\ structured_ideas' = <<>>
    /\ image_bytes' = NoValue
    /\ results' = <<>>
    /\ returned' = NoValue
    /\ calls' = <<>>
    /\ intro_audio' = NoValue
    /\ user_message' = <<>>

\* lines 212-232: the cards are drawn, the two messages join the history
Render ==
    /\ pc = "done"
    /\ returned.kind = "value"
    /\ messages' = messages
            \o <<Message("user", user_message),
                 Message("assistant", HistoryText(returned.value))>>
    /\ EndOfRun(run_log)
    /\ Forget
    /\ UNCHANGED <<blocks, prev_question_timestamp, clock, view>>

\* an exception of generate_ideas_with_media ends the script run at line 209
ScriptAborted ==
    /\ pc = "done"
    /\ returned.kind = "exception"
    /\ EndOfRun(run_log)
    /\ Forget
    /\ UNCHANGED <<blocks, messages, prev_question_timestamp, clock, view>>

\* a second passes, while the page waits for the user or the run for the
\* chat backend: the clock is read only at line 192, so the seconds a run
\* takes are all counted there
Tick ==
    /\ pc \in {"ui", "chat"}
    /\ clock < MaxClock
    /\ clock' = clock + 1
    /\ UNCHANGED <<pc, raw_reply, blocks, parsed, pipeline_vars, intro_audio,
                   user_message, messages, initial_question,
                   selected_suggestion, prev_question_timestamp, view,
                   run_log>>

\* the replies the chat model is taken to give in the UI runs
UIReplies ==
    { Join(<<FormatIdea(1, <<"a">>, <<"b">>), FormatIdea(2, <<"c">>, <<"d">>)>>,
           BlankLine),
      <<"1", " ", "a", " ", "b">> }

InitUI == pc = "ui" /\ InitState

NextUI ==
    \/ LoadPage
    \/ \E text \in Questions : AskInitialQuestion(text)
    \/ \E label \in DOMAIN SUGGESTIONS : ClickSuggestion(label)
    \/ \E text \in Questions : AskFollowUp(text)
    \/ Restart
    \/ RateLimit
    \/ IntroAudio
    \/ IntroAudioFails
    \/ Pipeline(UIReplies)
    \/ Render
    \/ ScriptAborted
    \/ Tick

SpecUI == InitUI /\ [][NextUI]_vars

-----------------------------------------------------------------------------
(* What the parser is required to give, stated on positions of the text    *)
(* and independently of the operators above.                               *)

HasAt(s, sub, i) ==
    /\ i + Len(sub) <= Len(s)
    /\ \A k \in 1..Len(sub) : s[i + k] = sub[k]

Occurrences(s, sub) == {i \in 0..(Len(s) - Len(sub)) : HasAt(s, sub, i)}

Least(S) == CHOOSE x \in S : \A y \in S : x <= y
Greatest(S) == CHOOSE x \in S : \A y \in S : x >= y

IsBlank(s) == \A i \in 1..Len(s) : s[i] \in Whitespace

Trimmed(s) ==
    LET solid == {i \in 1..Len(s) : s[i] \notin Whitespace}
    IN  IF solid = {} THEN <<>> ELSE SubSeq(s, Least(solid), Greatest(solid))

Lacks(s, sub) == Occurrences(s, sub) = {}

\* the ": " occurrences of a line at or after the end of its first ". "
LateColons(line) ==
    {c \in Occurrences(line, ColonSpace) :
        c >= Least(Occurrences(line, DotSpace)) + 2}

HasDelimiters(line) == ~Lacks(line, DotSpace) /\ LateColons(line) # {}

ExtractedTitle(line) ==
    Trimmed(SubSeq(line, Least(Occurrences(line, DotSpace)) + 3,
                   Least(LateColons(line))))

ExtractedDescription(line) ==
    Trimmed(SubSeq(line, Least(LateColons(line)) + 3, Len(line)))

\* a block with both delimiters whose title or description trims to empty
EmptyField(b) ==
    LET line == Trimmed(b)
    IN  /\ HasDelimiters(line)
        /\ \/ ExtractedTitle(line) = <<>>
           \/ ExtractedDescription(line) = <<>>

\* the records (none or one) that one candidate block stands for
Expected(b) ==
    LET line == Trimmed(b)
    IN  IF Lacks(line, DotSpace) \/ Lacks(line, ColonSpace) THEN <<>>
        ELSE IF ~HasDelimiters(line) \/ EmptyField(b) THEN <<>>
        ELSE <<IdeaRecord(ExtractedTitle(line), ExtractedDescription(line))>>

RECURSIVE ExpectedAll(_)
ExpectedAll(bs) ==
    IF bs = <<>> THEN <<>> ELSE Expected(Head(bs).text) \o ExpectedAll(Tail(bs))

Fields(bs) ==
    [i \in 1..Len(bs) |-> IdeaRecord(bs[i].idea, bs[i].description)]

AllIdeas ==
    /\ blocks # <<>>
    /\ \A i \in 1..Len(blocks) : blocks[i].kind = "idea"

\* no block holds a blank line of its own
BlankLineSeparated ==
    /\ InBlocks
    /\ \A i \in 1..Len(blocks) : Lacks(blocks[i].text, BlankLine)

CleanField(s) ==
    /\ s # <<>>
    /\ s[1] \notin Whitespace
    /\ s[Len(s)] \notin Whitespace
    /\ Lacks(s, BlankLine)

WellFormed ==
    /\ AllIdeas
    /\ \A i \in 1..Len(blocks) :
          /\ CleanField(blocks[i].idea)
          /\ CleanField(blocks[i].description)
          /\ Lacks(blocks[i].idea, ColonSpace)

\* C1 as stated: for a reply "1. T1: D1\n\n...\n\nN. TN: DN" with every Ti
\* and Di non-empty, the parser returns exactly the N records (Ti, Di), in
\* order.
C1_AsStated ==
    (pc = "parsed" /\ AllIdeas) =>
        (~parsed.raised /\ parsed.ideas = Fields(blocks))

\* C1 amended: the same, for replies whose Ti and Di are non-empty, have no
\* leading or trailing whitespace and hold no blank line, and whose Ti hold
\* no ": ".
C1_WellFormedReply ==
    (pc = "parsed" /\ WellFormed) =>
        (~parsed.raised /\ parsed.ideas = Fields(blocks))

C1_Witness ==
    /\ pc = "parsed"
    /\ WellFormed
    /\ Len(blocks) >= 2
    /\ blocks[1].idea # blocks[2].idea
    /\ ~Lacks(blocks[1].description, ColonSpace)
    /\ parsed.ideas = Fields(blocks)

\* C2: in a reply of blank-line-separated blocks, a block lacking ". " or
\* ": " gives no record, and the records of all the other valid blocks are
\* returned in their original relative order.
C2_MalformedDropped ==
    (pc = "parsed" /\ BlankLineSeparated) =>
        /\ ~parsed.raised
        /\ parsed.ideas = ExpectedAll(blocks)
        /\ \A i \in 1..Len(blocks) :
              (Lacks(blocks[i].text, DotSpace)
                  \/ Lacks(blocks[i].text, ColonSpace))
              => Expected(blocks[i].text) = <<>>

C2_Witness ==
    /\ pc = "parsed"
    /\ BlankLineSeparated
    /\ Len(blocks) = 3
    /\ blocks[1].kind = "idea" /\ blocks[3].kind = "idea"
    /\ blocks[1].idea # blocks[3].idea
    /\ Lacks(blocks[2].text, ColonSpace)
    /\ Len(parsed.ideas) = 2
    /\ parsed.ideas[1].idea = blocks[1].idea
    /\ parsed.ideas[2].idea = blocks[3].idea

\* C3: every returned record has a title and a description that are
\* non-empty after trimming, and a block whose extracted title or
\* description trims to empty gives no record.
C3_FieldsNonEmpty ==
    pc = "parsed" =>
        /\ \A i \in 1..Len(parsed.ideas) :
              /\ ~IsBlank(parsed.ideas[i].idea)
              /\ ~IsBlank(parsed.ideas[i].description)
        /\ BlankLineSeparated =>
              Len(parsed.ideas) <=
                  Cardinality({i \in 1..Len(blocks) :
                                  ~EmptyField(blocks[i].text)})

C3_Witness ==
    /\ pc = "parsed"
    /\ BlankLineSeparated
    /\ Len(blocks) = 3
    /\ EmptyField(blocks[1].text)
    /\ blocks[2].kind = "idea" /\ EmptyField(blocks[2].text)
    /\ Len(parsed.ideas) = 1

\* C10: the title/description delimiter is the first ": " at or after the
\* end of the first ". "; a ": " before it is never used, a block whose only
\* ": " lie before its first ". " is dropped, and no title holds a ": ".
C10_ColonAfterDot ==
    pc = "parsed" =>
        /\ \A i \in 1..Len(parsed.ideas) :
              Lacks(parsed.ideas[i].idea, ColonSpace)
        /\ Lacks(raw_reply, BlankLine) =>
              /\ parsed.ideas = Expected(raw_reply)
              /\ (/\ ~Lacks(Trimmed(raw_reply), DotSpace)
                  /\ LateColons(Trimmed(raw_reply)) = {})
                 => parsed.ideas = <<>>

C10_Witness ==
    /\ pc = "parsed"
    /\ Lacks(raw_reply, BlankLine)
    /\ ~Lacks(raw_reply, DotSpace)
    /\ \E c \in Occurrences(raw_reply, ColonSpace) :
          c < Least(Occurrences(raw_reply, DotSpace))
    /\ Len(parsed.ideas) = 1

-----------------------------------------------------------------------------
(* Properties of generate_ideas_with_media.                                *)

Smaller(a, b) == IF a < b THEN a ELSE b

NoCallFailed == \A i \in 1..Len(calls) : calls[i].ok

Finished == pc = "done" /\ calls # <<>>

\* C4: with max-count K = num_ideas and M parsed records, a call in which no
\* backend call fails returns exactly min(K, M) bundles, the first min(K, M)
\* parsed records in their order.
C4_Truncation ==
    (Finished /\ NoCallFailed) =>
        /\ returned.kind = "value"
        /\ Len(returned.value) = Smaller(num_ideas, Len(parsed.ideas))
        /\ \A i \in 1..Len(returned.value) :
              /\ returned.value[i].idea = parsed.ideas[i].idea
              /\ returned.value[i].description = parsed.ideas[i].description

C4_Witness ==
    /\ Finished
    /\ NoCallFailed
    /\ num_ideas = 2
    /\ Len(parsed.ideas) = 3
    /\ Len(returned.value) = 2
    /\ returned.value[1].idea # returned.value[2].idea

\* C5: a failed image or audio call ends the whole call: it is the last
\* backend call made, the exception reaches the caller and no list, not even
\* of the bundles already built, is returned.
C5_FailureAborts ==
    \A i \in 1..Len(calls) :
        (calls[i].api \in {"image", "audio"} /\ ~calls[i].ok) =>
            /\ i = Len(calls)
            /\ pc = "done"
            /\ returned = Exception

C5_Witness ==
    /\ pc = "done"
    /\ returned = Exception
    /\ Len(results) = 1
    /\ Len(structured_ideas) = 3
    /\ calls[Len(calls)].api = "image"
    /\ ~calls[Len(calls)].ok

\* C7: the parser never raises; when the reply holds no valid block the
\* parser gives the empty sequence and the call returns the empty list,
\* without raising and without an image or speech call.
C7_NoValidBlock ==
    /\ ~parsed.raised
    /\ (pc \in {"image", "audio", "return", "done"} /\ calls # <<>>
            /\ calls[1].ok
            /\ (Lacks(raw_reply, DotSpace) \/ Lacks(raw_reply, ColonSpace)))
        => parsed.ideas = <<>>
    /\ (Finished /\ calls[1].ok /\ parsed.ideas = <<>>)
        => (returned = Value(<<>>) /\ Len(calls) = 1)

C7_Witness ==
    /\ Finished
    /\ raw_reply = <<"1", " ", "a", " ", "b">>
    /\ num_ideas = 3
    /\ returned = Value(<<>>)
    /\ Len(calls) = 1

\* C9: the backend calls of one call are in sequence: the chat call first,
\* then for each retained idea in order its image call and then its audio
\* call, each made only after the one before came back; on success there
\* are as many image calls and as many audio calls as retained ideas, which
\* are min(K, M), so none for an idea the max-count cut off.
C9_CallOrder ==
    /\ pc \in {"idle", "chat"} => calls = <<>>
    /\ pc \in {"parse", "image", "audio", "return"} => NoCallFailed
    /\ pc = "parse" => Len(calls) = 1
    /\ calls # <<>> => calls[1].api = "chat"
    /\ \A i \in 2..Len(calls) :
          /\ calls[i - 1].ok
          /\ (i \div 2) <= Len(structured_ideas)
          /\ calls[i] \in
                IF i % 2 = 0
                THEN {BackendCall("image",
                                  TextString(structured_ideas[i \div 2]), ok) :
                        ok \in BOOLEAN}
                ELSE {BackendCall("audio",
                                  VoiceText(structured_ideas[i \div 2]), ok) :
                        ok \in BOOLEAN}
    /\ (Finished /\ NoCallFailed) =>
          /\ Len(structured_ideas) = Smaller(num_ideas, Len(parsed.ideas))
          /\ Len(calls) = 1 + 2 * Len(structured_ideas)
          /\ Len(returned.value) = Len(structured_ideas)

C9_Witness ==
    /\ Finished
    /\ NoCallFailed
    /\ Len(parsed.ideas) = 3
    /\ num_ideas = 2
    /\ Len(calls) = 5
    /\ calls[4].arg # calls[2].arg

-----------------------------------------------------------------------------
(* Properties of the script's turn.                                        *)

InCall == pc \in {"chat", "parse", "image", "audio", "return", "done"}

LastRun == run_log[Len(run_log)]

\* C6: generate_intro_audio never raises: it gives the audio bytes or None,
\* None when the speech backend fails, and the turn then still goes on to
\* call generate_ideas_with_media.
C6_IntroNeverRaises ==
    /\ intro_audio.kind \in {"value", "none"}
    /\ \A i \in 1..Len(run_log) :
          run_log[i].intro = "failed" => run_log[i].generate
    /\ InCall =>
          /\ run_log # <<>>
          /\ LastRun.intro = "failed" => intro_audio = NoValue
          /\ LastRun.intro = "ok" =>
                intro_audio = Value(Bytes("mp3", IntroText(user_message)))
          /\ topic = user_message

C6_Witness ==
    /\ pc = "done"
    /\ LastRun.intro = "failed"
    /\ intro_audio = NoValue
    /\ returned.kind = "value"
    /\ Len(returned.value) = 1

\* C8: of two consecutive runs of a session, the backend calls of the second
\* start no sooner than MIN_TIME_BETWEEN_REQUESTS after the first finished.
C8_MinimumInterval ==
    \A i \in 2..Len(run_log) :
        run_log[i].started >= run_log[i - 1].finished + MIN_TIME_BETWEEN_REQUESTS

=============================================================================
